---------------------------- MODULE Spec2Model ----------------------------
(***************************************************************************)
(* Model of src/christmas_year_count.py: a linear pipeline                 *)
(*   proof file -> HTTP fetch -> parse -> heading-scoped extraction ->     *)
(*   filter -> count by year -> CSV files -> chart,                        *)
(* together with the pure year-extraction heuristic extract_year.          *)
(*                                                                         *)
(* Text is a sequence of one-character strings, so that the regular        *)
(* expressions of the program are evaluated character by character.        *)
(***************************************************************************)
EXTENDS Integers, Sequences, FiniteSets

VARIABLES
    \* ---- one run of main() ----
    pc,             \* position in main()
    files,          \* names of the files written so far in this run
    requests,       \* number of HTTP GET requests issued
    response,       \* [kind |-> "none" | "transport_error" | "status", status |-> code]
    page,           \* the page received: [wrapper |-> BOOLEAN, nodes |-> Seq(node)]
    idx,            \* index of the next node of the find_all(...) traversal
    in_animation,   \* the running heading flag
    total_li,       \* diagnostic counter
    li_with_year,   \* diagnostic counter
    rows,           \* captured entries (df)
    df_filt,        \* filtered entries
    counts,         \* the year-count table, a sequence of [year, count]
    error,          \* "none" or the exception that ended the run
    \* ---- one call of extract_year(text) ----
    text,           \* the argument
    result,         \* None or Some(year)
    ypc             \* "idle" | "call" | "return"

vars == <<pc, files, requests, response, page, idx, in_animation, total_li,
          li_with_year, rows, df_filt, counts, error, text, result, ypc>>

mainVars == <<pc, files, requests, response, page, idx, in_animation, total_li,
              li_with_year, rows, df_filt, counts, error>>

yearVars == <<text, result, ypc>>

-----------------------------------------------------------------------------
(* Bounds of the model.                                                    *)

\* longest page, in nodes returned by find_all
MaxNodes == 4

\* longest argument of extract_year, in chunks of YearChunks
MaxChunks == 6

-----------------------------------------------------------------------------
(* Characters.                                                             *)

letters == <<"a", "b", "c", "d", "e", "f", "g", "h", "i", "j", "k", "l", "m",
             "n", "o", "p", "q", "r", "s", "t", "u", "v", "w", "x", "y", "z">>

caps == <<"A", "B", "C", "D", "E", "F", "G", "H", "I", "J", "K", "L", "M",
          "N", "O", "P", "Q", "R", "S", "T", "U", "V", "W", "X", "Y", "Z">>

digits == <<"0", "1", "2", "3", "4", "5", "6", "7", "8", "9">>

Range(s) == {s[k] : k \in 1..Len(s)}

LetterSet == Range(letters)

CapSet == Range(caps)

DigitSet == Range(digits)

\* \d
IsDigit(c) == c \in DigitSet

WordSet == LetterSet \cup CapSet \cup DigitSet \cup {"_"}

\* \w
IsWord(c) == c \in WordSet

DigitValOf == [c \in DigitSet |-> CHOOSE k \in 0..9 : digits[k + 1] = c]

DigitVal(c) == DigitValOf[c]

LowerOf == [c \in CapSet |-> letters[CHOOSE k \in 1..26 : caps[k] = c]]

\* re.I: letters compare by their lower-case form
lower(c) == IF c \in CapSet THEN LowerOf[c] ELSE c

lowerText(t) == [k \in 1..Len(t) |-> lower(t[k])]

\* Python's None and a present value
None == <<>>

Some(v) == <<v>>

-----------------------------------------------------------------------------
(* Regular expressions, matched the way re.search does: the leftmost start *)
(* position at which the pattern matches.                                  *)

\* \b at position p, the place between t[p-1] and t[p]
Boundary(t, p) ==
    LET left == p > 1 /\ p - 1 <= Len(t) /\ IsWord(t[p - 1])
        right == p >= 1 /\ p <= Len(t) /\ IsWord(t[p])
    IN left # right

\* (19\d{2}|20\d{2}) at p
YearShapeAt(t, p) ==
    /\ p >= 1
    /\ p + 3 <= Len(t)
    /\ \/ t[p] = "1" /\ t[p + 1] = "9"
       \/ t[p] = "2" /\ t[p + 1] = "0"
    /\ IsDigit(t[p + 2])
    /\ IsDigit(t[p + 3])

\* \b(19\d{2}|20\d{2})\b at p
YearAt(t, p) == Boundary(t, p) /\ YearShapeAt(t, p) /\ Boundary(t, p + 4)

\* int(y.group(1))
YearValue(t, p) ==
    1000 * DigitVal(t[p]) + 100 * DigitVal(t[p + 1])
        + 10 * DigitVal(t[p + 2]) + DigitVal(t[p + 3])

RECURSIVE YearScan(_, _)
YearScan(t, p) ==
    IF p + 3 > Len(t) THEN 0
    ELSE IF YearAt(t, p) THEN p
    ELSE YearScan(t, p + 1)

YEAR_RE_search_rightmost(t) ==
    IF \E p \in 1..Len(t) : YearAt(t, p)
    THEN CHOOSE p \in 1..Len(t) : YearAt(t, p) /\ \A q \in 1..Len(t) : YearAt(t, q) => q <= p
    ELSE 0

\* YEAR_RE.search(t): the start of the leftmost match, 0 for no match
YEAR_RE_search(t) == YearScan(t, 1)

RECURSIVE FirstClose(_, _)
\* the first ")" at or after p, 0 if there is none
FirstClose(t, p) ==
    IF p > Len(t) THEN 0
    ELSE IF t[p] = ")" THEN p
    ELSE FirstClose(t, p + 1)

\* DATE_PARENS_RE matched with its "(" at i: [^)]* cannot pass a ")", so the
\* closing "\)" is the first ")" after i, and \b year \b must fit in between.
\* The end of the match, 0 for no match.
DateParensAt(t, i) ==
    IF t[i] # "(" THEN 0
    ELSE LET j == FirstClose(t, i + 1)
         IN IF j # 0 /\ \E p \in (i + 1)..(j - 4) : YearAt(t, p) THEN j ELSE 0

RECURSIVE DateParensScan(_, _)
DateParensScan(t, i) ==
    IF i > Len(t) THEN None
    ELSE IF DateParensAt(t, i) # 0
         THEN Some(SubSeq(t, i + 1, DateParensAt(t, i) - 1))
    ELSE DateParensScan(t, i + 1)

\* DATE_PARENS_RE.search(t): Some(m.group(1)) of the leftmost match, or None
DATE_PARENS_RE_search(t) == DateParensScan(t, 1)

\* text[p..] starts with w, letters compared without case
MatchesAtI(t, p, w) ==
    /\ p >= 1
    /\ p + Len(w) - 1 <= Len(t)
    /\ \A k \in 1..Len(w) : lower(t[p + k - 1]) = w[k]

animation == <<"a", "n", "i", "m", "a", "t", "i", "o", "n">>

animated == <<"a", "n", "i", "m", "a", "t", "e", "d">>

\* ANIM_HEADING_RE.search(heading) is not None
ANIM_HEADING_RE_search(t) ==
    \E p \in 1..Len(t) : \E w \in {animation, animated} :
        /\ Boundary(t, p)
        /\ MatchesAtI(t, p, w)
        /\ Boundary(t, p + Len(w))

-----------------------------------------------------------------------------
(* extract_year                                                            *)

extract_year_bareOnly(t) ==
    LET y == YEAR_RE_search(t)
    IN IF y # 0 THEN Some(YearValue(t, y)) ELSE None

extract_year(t) ==
    LET m == DATE_PARENS_RE_search(t)
        y1 == IF m # None THEN YEAR_RE_search(m[1]) ELSE 0
        y == YEAR_RE_search(t)
    IN IF m # None /\ y1 # 0 THEN Some(YearValue(m[1], y1))
       ELSE IF y # 0 THEN Some(YearValue(t, y))
       ELSE None

-----------------------------------------------------------------------------
(* The pages the fetch can return.  A node is what                         *)
(* wrapper.find_all(["h2","h3","h4","li"]) yields, with its flattened text. *)

T_Animated == <<"A", "n", "i", "m", "a", "t", "e", "d", " ", "s", "p", "e", "c", "i", "a", "l", "s">>

T_Live == <<"L", "i", "v", "e", "-", "a", "c", "t", "i", "o", "n">>

T_Carol == <<"C", "a", "r", "o", "l", " ", "(", "1", "9", "7", "1", ")">>

T_Special == <<"T", "V", " ", "S", "p", "e", "c", "i", "a", "l", " ", "(", "2", "0", "0", "5", ")">>

T_Pilot == <<"P", "i", "l", "o", "t", " ", "(", "2", "0", "0", "6", ")">>

T_Untitled == <<"U", "n", "t", "i", "t", "l", "e", "d">>

HeadingNames == {"h2", "h3", "h4"}

Node(n, t) == [name |-> n, text |-> t]

NodeMenu ==
    { Node("h2", T_Animated), Node("h3", T_Live),
      Node("li", T_Carol), Node("li", T_Special), Node("li", T_Pilot),
      Node("li", T_Untitled) }

NoPage == [wrapper |-> FALSE, nodes |-> <<>>]

Pages ==
    {NoPage} \cup
    { [wrapper |-> TRUE, nodes |-> ns] :
        ns \in UNION { [1..n -> NodeMenu] : n \in 0..MaxNodes } }

\* final status codes of the response (redirects that can be followed are
\* followed inside requests.get)
Statuses == {200, 300, 404, 503}

NoResponse == [kind |-> "none", status |-> 0]

File_proof == "outputs/it_ran.txt"

File_all == "data/wiki_christmas_entries_all.csv"

File_filtered == "data/wiki_christmas_entries_filtered.csv"

File_counts == "data/wiki_christmas_counts_by_year.csv"

File_png == "outputs/wiki_christmas_counts_by_year.png"

CsvFiles == {File_all, File_filtered, File_counts}

-----------------------------------------------------------------------------
(* Filtering and counting.                                                 *)

kw1 == <<"c", "h", "r", "i", "s", "t", "m", "a", "s", " ", "s", "p", "e", "c", "i", "a", "l">>

kw2 == <<"h", "o", "l", "i", "d", "a", "y", " ", "s", "p", "e", "c", "i", "a", "l">>

kw3 == <<"s", "p", "e", "c", "i", "a", "l", " ", "p", "r", "e", "s", "e", "n", "t", "a", "t", "i", "o", "n">>

kw4 == <<"t", "v", " ", "s", "p", "e", "c", "i", "a", "l">>

kw5 == <<"t", "e", "l", "e", "v", "i", "s", "i", "o", "n", " ", "s", "p", "e", "c", "i", "a", "l">>

specials_keywords == <<kw1, kw2, kw3, kw4, kw5>>

RECURSIVE PatScan(_, _)
\* pat.search(t) from position p: the alternation is tried keyword by keyword
\* at each start position, letters compared without case
PatScan(t, p) ==
    IF p > Len(t) THEN FALSE
    ELSE IF \E k \in 1..Len(specials_keywords) : MatchesAtI(t, p, specials_keywords[k])
         THEN TRUE
    ELSE PatScan(t, p + 1)

\* df["entry"].str.contains(pat)
pat_search(t) == PatScan(t, 1)

NotAnimation(r) == r.in_animation_section = FALSE

NotSpecial(r) == ~pat_search(r.entry)

Filter_keepAnimation(df) == SelectSeq(df, NotSpecial)

\* lines 108-117: the two masks, one after the other
Filter(df) == SelectSeq(SelectSeq(df, NotAnimation), NotSpecial)

RECURSIVE SortedAsc(_)
\* the elements of a finite set of integers, ascending
SortedAsc(S) ==
    IF S = {} THEN <<>>
    ELSE LET m == CHOOSE x \in S : \A y \in S : x <= y
         IN <<m>> \o SortedAsc(S \ {m})

\* df_filt.groupby("year").size(): one row per year, keys ascending
groupby_size(df) ==
    LET ys == SortedAsc({df[k].year : k \in 1..Len(df)})
    IN [i \in 1..Len(ys) |->
            [year |-> ys[i],
             count |-> Cardinality({k \in 1..Len(df) : df[k].year = ys[i]})]]

RECURSIVE InsertDesc(_, _)
\* r goes before the first row with a strictly smaller count
InsertDesc(s, r) ==
    IF s = <<>> THEN <<r>>
    ELSE IF s[1].count < r.count THEN <<r>> \o s
    ELSE <<s[1]>> \o InsertDesc(Tail(s), r)

RECURSIVE SortDesc(_, _)
SortDesc(done, todo) ==
    IF todo = <<>> THEN done
    ELSE SortDesc(InsertDesc(done, todo[1]), Tail(todo))

sort_values_none(s) == s

\* .sort_values(ascending=False): descending by count.  For the short tables
\* of the model numpy's quicksort is an insertion sort, so equal counts keep
\* their order
sort_values(s) == SortDesc(<<>>, s)

-----------------------------------------------------------------------------
(* main(), one action per step.                                            *)

ExtractIdle == text = <<>> /\ result = None /\ ypc = "idle"

Init ==
    /\ pc = "start"
    /\ files = {}
    /\ requests = 0
    /\ response = NoResponse
    /\ page = NoPage
    /\ idx = 1
    /\ in_animation = FALSE
    /\ total_li = 0
    /\ li_with_year = 0
    /\ rows = <<>>
    /\ df_filt = <<>>
    /\ counts = <<>>
    /\ error = "none"
    /\ ExtractIdle

Raise(e) == pc' = "error" /\ error' = e

WriteProof_skipped ==
    /\ pc = "start"
    /\ pc' = "fetch"
    /\ UNCHANGED <<files, requests, response, page, idx, in_animation, total_li,
                   li_with_year, rows, df_filt, counts, error>>
    /\ UNCHANGED yearVars

\* lines 39-49
WriteProof ==
    /\ pc = "start"
    /\ files' = files \cup {File_proof}
    /\ pc' = "fetch"
    /\ UNCHANGED <<requests, response, page, idx, in_animation, total_li,
                   li_with_year, rows, df_filt, counts, error>>
    /\ UNCHANGED yearVars

raise_for_status_never(s) == FALSE

\* r.raise_for_status() raises for a 4xx or 5xx status
raise_for_status(s) == 400 <= s /\ s < 600

\* lines 51-58
Fetch ==
    /\ pc = "fetch"
    /\ requests' = requests + 1
    /\ \/ /\ response' = [kind |-> "transport_error", status |-> 0]
          /\ page' = NoPage
          /\ Raise("RequestException")
       \/ \E s \in Statuses :
            /\ response' = [kind |-> "status", status |-> s]
            /\ IF raise_for_status(s)
               THEN page' = NoPage /\ Raise("HTTPError")
               ELSE (\E p \in Pages : page' = p) /\ pc' = "parse" /\ error' = error
    /\ UNCHANGED <<files, idx, in_animation, total_li, li_with_year, rows,
                   df_filt, counts>>
    /\ UNCHANGED yearVars

\* lines 60-70
Parse ==
    /\ pc = "parse"
    /\ IF ~page.wrapper
       THEN /\ Raise("RuntimeError")
            /\ UNCHANGED <<rows, in_animation, total_li, li_with_year, idx>>
       ELSE /\ pc' = "loop"
            /\ error' = error
            /\ rows' = <<>>
            /\ in_animation' = FALSE
            /\ total_li' = 0
            /\ li_with_year' = 0
            /\ idx' = 1
    /\ UNCHANGED <<files, requests, response, page, df_filt, counts>>
    /\ UNCHANGED yearVars

LoopHeading_sticky ==
    /\ pc = "loop"
    /\ idx <= Len(page.nodes)
    /\ page.nodes[idx].name \in HeadingNames
    /\ in_animation' = (in_animation \/ ANIM_HEADING_RE_search(page.nodes[idx].text))
    /\ idx' = idx + 1
    /\ UNCHANGED <<pc, files, requests, response, page, total_li, li_with_year,
                   rows, df_filt, counts, error>>
    /\ UNCHANGED yearVars

\* lines 72-80
LoopHeading ==
    /\ pc = "loop"
    /\ idx <= Len(page.nodes)
    /\ page.nodes[idx].name \in HeadingNames
    /\ in_animation' = ANIM_HEADING_RE_search(page.nodes[idx].text)
    /\ idx' = idx + 1
    /\ UNCHANGED <<pc, files, requests, response, page, total_li, li_with_year,
                   rows, df_filt, counts, error>>
    /\ UNCHANGED yearVars

\* lines 82-95
LoopItem ==
    /\ pc = "loop"
    /\ idx <= Len(page.nodes)
    /\ page.nodes[idx].name = "li"
    /\ total_li' = total_li + 1
    /\ LET year == extract_year(page.nodes[idx].text)
       IN IF year = None
          THEN UNCHANGED <<li_with_year, rows>>
          ELSE /\ li_with_year' = li_with_year + 1
               /\ rows' = Append(rows, [year |-> year[1],
                                        in_animation_section |-> in_animation,
                                        entry |-> page.nodes[idx].text])
    /\ idx' = idx + 1
    /\ UNCHANGED <<pc, files, requests, response, page, in_animation, df_filt,
                   counts, error>>
    /\ UNCHANGED yearVars

EndLoop_noShortCircuit ==
    /\ pc = "loop"
    /\ idx > Len(page.nodes)
    /\ pc' = "filter"
    /\ UNCHANGED <<files, requests, response, page, idx, in_animation, total_li,
                   li_with_year, rows, df_filt, counts, error>>
    /\ UNCHANGED yearVars

\* lines 97-104: the loop is over; df = pd.DataFrame(rows); df.empty returns
EndLoop ==
    /\ pc = "loop"
    /\ idx > Len(page.nodes)
    /\ pc' = IF rows = <<>> THEN "done" ELSE "filter"
    /\ UNCHANGED <<files, requests, response, page, idx, in_animation, total_li,
                   li_with_year, rows, df_filt, counts, error>>
    /\ UNCHANGED yearVars

\* lines 106-119
FilterRows ==
    /\ pc = "filter"
    /\ df_filt' = Filter(rows)
    /\ pc' = "count"
    /\ UNCHANGED <<files, requests, response, page, idx, in_animation, total_li,
                   li_with_year, rows, counts, error>>
    /\ UNCHANGED yearVars

\* line 122
CountByYear ==
    /\ pc = "count"
    /\ counts' = sort_values(groupby_size(df_filt))
    /\ pc' = "top"
    /\ UNCHANGED <<files, requests, response, page, idx, in_animation, total_li,
                   li_with_year, rows, df_filt, error>>
    /\ UNCHANGED yearVars

TopYear_guarded ==
    /\ pc = "top"
    /\ pc' = "save_all"
    /\ UNCHANGED <<files, requests, response, page, idx, in_animation, total_li,
                   li_with_year, rows, df_filt, counts, error>>
    /\ UNCHANGED yearVars

\* lines 124-129: counts.index[0] raises IndexError on an empty table
TopYear ==
    /\ pc = "top"
    /\ IF counts = <<>>
       THEN Raise("IndexError")
       ELSE pc' = "save_all" /\ error' = error
    /\ UNCHANGED <<files, requests, response, page, idx, in_animation, total_li,
                   li_with_year, rows, df_filt, counts>>
    /\ UNCHANGED yearVars

Save(at, f, next) ==
    /\ pc = at
    /\ files' = files \cup {f}
    /\ pc' = next
    /\ UNCHANGED <<requests, response, page, idx, in_animation, total_li,
                   li_with_year, rows, df_filt, counts, error>>
    /\ UNCHANGED yearVars

\* line 137
SaveAll == Save("save_all", File_all, "save_filtered")

\* line 138
SaveFiltered == Save("save_filtered", File_filtered, "save_counts")

SaveCounts_afterChart ==
    /\ pc = "save_counts"
    /\ pc' = "chart"
    /\ UNCHANGED <<files, requests, response, page, idx, in_animation, total_li,
                   li_with_year, rows, df_filt, counts, error>>
    /\ UNCHANGED yearVars

\* lines 139-143
SaveCounts == Save("save_counts", File_counts, "chart")

\* lines 146-152: plotting or savefig may raise (no rendering backend, ...)
Chart ==
    /\ pc = "chart"
    /\ \/ files' = files \cup {File_png} /\ pc' = "done" /\ error' = error
       \/ files' = files /\ Raise("ChartError")
    /\ UNCHANGED <<requests, response, page, idx, in_animation, total_li,
                   li_with_year, rows, df_filt, counts>>
    /\ UNCHANGED yearVars

Next ==
    \/ WriteProof
    \/ Fetch
    \/ Parse
    \/ LoopHeading
    \/ LoopItem
    \/ EndLoop
    \/ FilterRows
    \/ CountByYear
    \/ TopYear
    \/ SaveAll
    \/ SaveFiltered
    \/ SaveCounts
    \/ Chart

Spec == Init /\ [][Next]_vars

-----------------------------------------------------------------------------
(* extract_year as a pure function: the argument is any concatenation of   *)
(* at most MaxChunks chunks.                                               *)

YearChunks ==
    { <<"1", "9", "9", "8">>, <<"2", "0", "0", "6">>, <<"(">>, <<")">>, <<"a">> }

RECURSIVE Flatten(_)
Flatten(cs) == IF cs = <<>> THEN <<>> ELSE cs[1] \o Flatten(Tail(cs))

YearTexts ==
    { Flatten(cs) : cs \in UNION { [1..n -> YearChunks] : n \in 0..MaxChunks } }

MainIdle ==
    /\ pc = "idle"
    /\ files = {}
    /\ requests = 0
    /\ response = NoResponse
    /\ page = NoPage
    /\ idx = 1
    /\ in_animation = FALSE
    /\ total_li = 0
    /\ li_with_year = 0
    /\ rows = <<>>
    /\ df_filt = <<>>
    /\ counts = <<>>
    /\ error = "none"

InitYear ==
    /\ MainIdle
    /\ text \in YearTexts
    /\ result = None
    /\ ypc = "call"

\* lines 26-35
CallExtractYear ==
    /\ ypc = "call"
    /\ result' = extract_year(text)
    /\ ypc' = "return"
    /\ UNCHANGED text
    /\ UNCHANGED mainVars

NextYear == CallExtractYear

SpecYear == InitYear /\ [][NextYear]_vars

-----------------------------------------------------------------------------
(* Vocabulary of the properties of extract_year.                           *)

\* the start positions of the year tokens of t
YearTokens(t) == {p \in 1..Len(t) : YearAt(t, p)}

LeftmostOf(S) == CHOOSE x \in S : \A y \in S : x <= y

CountChar(t, c, a, b) == Cardinality({k \in a..b : t[k] = c})

\* t[a..b] is well nested
Balanced(t, a, b) ==
    /\ CountChar(t, "(", a, b) = CountChar(t, ")", a, b)
    /\ \A m \in a..b : CountChar(t, "(", a, m) >= CountChar(t, ")", a, m)

\* the year tokens of t that lie strictly between positions i and j
TokensIn(t, i, j) == {p \in YearTokens(t) : i < p /\ p + 3 < j}

TokensOut(t, i, j) == {p \in YearTokens(t) : p + 3 < i \/ j < p}

\* "(" at i with its matching ")" at j
MatchedPair(t, i, j) ==
    i < j /\ t[i] = "(" /\ t[j] = ")" /\ Balanced(t, i + 1, j - 1)

\* "(" at i with the first ")" after it at j
SimplePair(t, i, j) ==
    i < j /\ t[i] = "(" /\ t[j] = ")" /\ \A k \in (i + 1)..(j - 1) : t[k] # ")"

MatchedYearSpans(t) ==
    {s \in (1..Len(t)) \X (1..Len(t)) :
        MatchedPair(t, s[1], s[2]) /\ TokensIn(t, s[1], s[2]) # {}}

SimpleYearSpans(t) ==
    {s \in (1..Len(t)) \X (1..Len(t)) :
        SimplePair(t, s[1], s[2]) /\ TokensIn(t, s[1], s[2]) # {}}

\* the span of S that starts leftmost (a "(" starts at most one span)
LeftmostSpan(S) == CHOOSE s \in S : \A r \in S : s[1] <= r[1]

\* the value of the first year token inside span s
FirstYearIn(t, s) == YearValue(t, LeftmostOf(TokensIn(t, s[1], s[2])))

\* some year token outside span s differs from the first one inside it
DifferentYearOutside(t, s) ==
    \E q \in TokensOut(t, s[1], s[2]) : YearValue(t, q) # FirstYearIn(t, s)

\* C1 as stated, a parenthesized substring being a "(" with its matching ")",
\* on texts whose parentheses are well nested: whenever such a substring holds
\* a year token and a different year token stands outside it, extract_year
\* returns the first year token of the leftmost such substring.
C1_AsStated ==
    (ypc = "return" /\ Balanced(text, 1, Len(text))
        /\ MatchedYearSpans(text) # {}
        /\ DifferentYearOutside(text, LeftmostSpan(MatchedYearSpans(text))))
    => result = Some(FirstYearIn(text, LeftmostSpan(MatchedYearSpans(text))))

\* C1 (amended): whenever the text has a "(" whose first following ")" encloses
\* a year token, and a different year token stands outside that stretch,
\* extract_year returns the first year token of the leftmost such stretch,
\* whether the outside year stands before or after it.
C1_ParenYearWins ==
    (ypc = "return" /\ SimpleYearSpans(text) # {}
        /\ DifferentYearOutside(text, LeftmostSpan(SimpleYearSpans(text))))
    => result = Some(FirstYearIn(text, LeftmostSpan(SimpleYearSpans(text))))

\* a year before and a year after the parentheses, both different from the
\* one inside, which is returned
C1_Witness ==
    /\ ypc = "return"
    /\ SimpleYearSpans(text) # {}
    /\ LET s == LeftmostSpan(SimpleYearSpans(text))
       IN /\ \E q \in YearTokens(text) : q < s[1] /\ YearValue(text, q) # FirstYearIn(text, s)
          /\ \E q \in YearTokens(text) : q > s[2] /\ YearValue(text, q) # FirstYearIn(text, s)
          /\ result = Some(FirstYearIn(text, s))

\* C9: for a text with no "(" ... ")" stretch enclosing a year token,
\* extract_year returns the leftmost year token of the whole text, and None
\* exactly when the text has no year token.
C9_BareYearFallback ==
    (ypc = "return" /\ SimpleYearSpans(text) = {})
    => /\ (result = None) <=> (YearTokens(text) = {})
       /\ YearTokens(text) # {}
            => result = Some(YearValue(text, LeftmostOf(YearTokens(text))))

\* two different bare years and no parenthesized year: the left one is returned
C9_Witness ==
    /\ ypc = "return"
    /\ SimpleYearSpans(text) = {}
    /\ \E p, q \in YearTokens(text) : p < q /\ YearValue(text, p) # YearValue(text, q)
    /\ result = Some(YearValue(text, LeftmostOf(YearTokens(text))))

-----------------------------------------------------------------------------
(* Vocabulary of the properties of main().                                 *)

OutputFiles == CsvFiles \cup {File_png}

FetchErrors == {"RequestException", "HTTPError"}

\* the loop over the nodes has ended and lines 97-104 have run
ExtractionDone ==
    \/ pc \in {"filter", "count", "top", "save_all", "save_filtered",
               "save_counts", "chart", "done"}
    \/ pc = "error" /\ error \in {"IndexError", "ChartError"}

\* lines 106-119 have run
FilterDone ==
    \/ pc \in {"count", "top", "save_all", "save_filtered", "save_counts", "chart"}
    \/ pc = "done" /\ rows # <<>>
    \/ pc = "error" /\ error \in {"IndexError", "ChartError"}

\* line 122 has run
CountDone == FilterDone /\ pc # "count"

\* lines 124-125 have run
TopDone == CountDone /\ pc # "top"

IsHeading(n) == n.name \in HeadingNames

\* the match result of the last heading before node i, FALSE if there is none
FlagBefore(nodes, i) ==
    LET H == {j \in 1..(i - 1) : IsHeading(nodes[j])}
    IN /\ H # {}
       /\ ANIM_HEADING_RE_search(nodes[CHOOSE j \in H : \A h \in H : h <= j].text)

\* the positions below n of the list items that yield a year, ascending
YearItems(nodes, n) ==
    SortedAsc({i \in 1..(n - 1) :
                 nodes[i].name = "li" /\ extract_year(nodes[i].text) # None})

\* C2: every emitted entry carries the animation-pattern match result of the
\* most recently visited heading before its list item (FALSE if none), and
\* so does the running flag for the node visited next.
C2_FlagFollowsLastHeading ==
    pc \in {"loop"} \cup {"filter", "count", "top", "save_all", "save_filtered",
                          "save_counts", "chart", "done", "error"}
    => LET ps == YearItems(page.nodes, idx)
       IN /\ Len(rows) = Len(ps)
          /\ \A k \in 1..Len(ps) :
                rows[k].in_animation_section = FlagBefore(page.nodes, ps[k])
          /\ pc = "loop" => in_animation = FlagBefore(page.nodes, idx)

\* an entry of an animation section followed by an entry under a later
\* heading that does not match
C2_Witness ==
    /\ ExtractionDone
    /\ \E k \in 1..Len(rows) : \E m \in 1..Len(rows) :
         /\ k < m
         /\ rows[k].in_animation_section = TRUE
         /\ rows[m].in_animation_section = FALSE

\* some keyword occurs in t, letters compared without case
HasSpecialKeyword(t) ==
    LET lt == lowerText(t)
    IN \E k \in 1..Len(specials_keywords) :
         \E p \in 1..(Len(t) - Len(specials_keywords[k]) + 1) :
            \A m \in 1..Len(specials_keywords[k]) :
                lt[p + m - 1] = specials_keywords[k][m]

Kept(r) == r.in_animation_section = FALSE /\ ~HasSpecialKeyword(r.entry)

\* C3: the filtered entries are exactly the captured entries, in their order,
\* that are outside animation sections and contain none of the five keywords;
\* so there are never more of them than captured entries.
C3_FilterExact ==
    FilterDone
    => /\ rows # <<>>
       /\ df_filt = SelectSeq(rows, Kept)
       /\ Len(df_filt) <= Len(rows)

\* one entry kept, one dropped for its section and one for a keyword
C3_Witness ==
    /\ FilterDone
    /\ df_filt # <<>>
    /\ \E k \in 1..Len(rows) : rows[k].in_animation_section = TRUE
    /\ \E k \in 1..Len(rows) :
         rows[k].in_animation_section = FALSE /\ HasSpecialKeyword(rows[k].entry)

RECURSIVE SumCounts(_)
SumCounts(s) == IF s = <<>> THEN 0 ELSE s[1].count + SumCounts(Tail(s))

\* C4: the year-count table has one row per distinct year of the filtered
\* entries, each count is the number of filtered entries of that year (none
\* is zero and they sum to the number of filtered entries), and the counts
\* do not increase down the table.
C4_CountsTable ==
    CountDone
    => /\ \A i, j \in 1..Len(counts) : counts[i].year = counts[j].year => i = j
       /\ {counts[i].year : i \in 1..Len(counts)}
            = {df_filt[k].year : k \in 1..Len(df_filt)}
       /\ \A i \in 1..Len(counts) :
            /\ counts[i].count
                 = Cardinality({k \in 1..Len(df_filt) : df_filt[k].year = counts[i].year})
            /\ counts[i].count > 0
       /\ SumCounts(counts) = Len(df_filt)
       /\ \A i \in 1..(Len(counts) - 1) : counts[i].count >= counts[i + 1].count

\* the later year has the larger count and comes first
C4_Witness ==
    /\ CountDone
    /\ Len(counts) >= 2
    /\ counts[1].count > counts[2].count
    /\ counts[1].year > counts[2].year

\* C5: when the extraction pass captures no entry the run ends normally and
\* the proof marker is the only file written.
C5_NoRowsEndsQuietly ==
    (ExtractionDone /\ rows = <<>>)
    => pc = "done" /\ error = "none" /\ files = {File_proof}

\* list items were scanned and none yielded a year
C5_Witness ==
    pc = "done" /\ rows = <<>> /\ total_li > 0 /\ files = {File_proof}

\* C6: the proof marker is written before the HTTP request is issued and is
\* there however the run goes on or ends.
C6_ProofFirst ==
    (requests > 0 \/ pc # "start") => File_proof \in files

\* the fetch failed and the proof marker is the one file of the run
C6_Witness ==
    pc = "error" /\ error \in FetchErrors /\ files = {File_proof}

\* a run aborted with exception e before the extraction: one request, no
\* list item scanned, no CSV file and no chart
AbortedEarly(e) ==
    /\ pc = "error"
    /\ error \in e
    /\ requests = 1
    /\ total_li = 0
    /\ rows = <<>>
    /\ files \cap OutputFiles = {}

WrapperMissing ==
    response.kind = "status" /\ pc # "parse" /\ error \notin FetchErrors
        /\ ~page.wrapper

\* C7 as stated: a transport error or a status outside 2xx aborts the run at
\* the fetch, a missing content container aborts it at parsing; one request,
\* no list item extracted, no CSV file and no chart.
C7_AsStated ==
    /\ requests <= 1
    /\ (response.kind = "transport_error"
          \/ (response.kind = "status"
                /\ ~(200 <= response.status /\ response.status <= 299)))
       => AbortedEarly(FetchErrors)
    /\ WrapperMissing => AbortedEarly({"RuntimeError"})

\* C7 (amended): a transport error or a 4xx or 5xx status aborts the run at
\* the fetch, a missing content container aborts it at parsing; one request,
\* no list item extracted, no CSV file and no chart.
C7_FailuresAreTerminal ==
    /\ requests <= 1
    /\ (response.kind = "transport_error"
          \/ (response.kind = "status"
                /\ 400 <= response.status /\ response.status <= 599))
       => AbortedEarly(FetchErrors)
    /\ WrapperMissing => AbortedEarly({"RuntimeError"})

\* the server answered 503 and the run stopped there
C7_Witness ==
    /\ response = [kind |-> "status", status |-> 503]
    /\ AbortedEarly({"HTTPError"})

\* C8: when chart rendering fails the three CSV files have been written and
\* stay written.
C8_TablesSurviveChartFailure ==
    error = "ChartError" => CsvFiles \subseteq files /\ File_png \notin files

C8_Witness ==
    pc = "error" /\ error = "ChartError" /\ CsvFiles \subseteq files

\* C10: when entries were captured and the filter removes them all, the run
\* aborts at the top-year lookup with only the proof marker written; so
\* whenever a CSV file or the chart is written the filtered set is not empty.
C10_EmptyFilterAborts ==
    /\ (TopDone /\ df_filt = <<>>)
       => pc = "error" /\ error = "IndexError" /\ files = {File_proof}
    /\ files \cap OutputFiles # {} => df_filt # <<>>

\* one entry dropped for its section, the other for a keyword
C10_Witness ==
    /\ pc = "error"
    /\ error = "IndexError"
    /\ Len(rows) = 2
    /\ rows[1].in_animation_section = TRUE
    /\ rows[2].in_animation_section = FALSE
    /\ HasSpecialKeyword(rows[2].entry)
    /\ df_filt = <<>>

=============================================================================
